---- MODULE Spec2Model ----
(***************************************************************************)
(* A model of python-editor (editor.py): editor resolution, the per-editor *)
(* argument table and the edit() call, one public API call per behaviour.  *)
(*                                                                         *)
(* Strings are sequences of one-character strings, bytes are sequences of  *)
(* integers 0..255, text is a sequence of Unicode code points.             *)
(***************************************************************************)
EXTENDS Integers, Sequences, FiniteSets, TLC

\* Python's None where a string is expected: a sequence that is no string
\* (its one element is not a character), so it equals no string.
None == <<"None">>

(***************************************************************************)
(* String literals used by the program and by the inputs.                  *)
(***************************************************************************)
s_editor      == <<"e","d","i","t","o","r">>
s_vim         == <<"v","i","m">>
s_gvim        == <<"g","v","i","m">>
s_vim_basic   == <<"v","i","m",".","b","a","s","i","c">>
s_vim_tiny    == <<"v","i","m",".","t","i","n","y">>
s_emacs       == <<"e","m","a","c","s">>
s_emacsclient == <<"e","m","a","c","s","c","l","i","e","n","t">>
s_gedit       == <<"g","e","d","i","t">>
s_nano        == <<"n","a","n","o">>
s_code        == <<"c","o","d","e">>

f_f          == <<"-","f">>
f_o          == <<"-","o">>
f_nw         == <<"-","n","w">>
f_w          == <<"-","w">>
f_new_window == <<"-","-","n","e","w","-","w","i","n","d","o","w">>
f_R          == <<"-","R">>
f_n          == <<"-","n">>

\* editor.py:26-33
get_default_editors == <<s_editor, s_vim, s_emacs, s_nano>>

\* A plausible slip in the table: nano mapped like the unknown names.
get_editor_args_nano_dropped(editor) ==
    IF editor \in {s_vim, s_gvim, s_vim_basic, s_vim_tiny} THEN <<f_f, f_o>>
    ELSE IF editor \in {s_emacs, s_emacsclient} THEN <<f_nw>>
    ELSE IF editor = s_gedit THEN <<f_w, f_new_window>>
    ELSE IF editor = s_code THEN <<f_w, f_n>>
    ELSE <<>>

\* editor.py:36-53
get_editor_args(editor) ==
    IF editor \in {s_vim, s_gvim, s_vim_basic, s_vim_tiny} THEN <<f_f, f_o>>
    ELSE IF editor \in {s_emacs, s_emacsclient} THEN <<f_nw>>
    ELSE IF editor = s_gedit THEN <<f_w, f_new_window>>
    ELSE IF editor = s_nano THEN <<f_R>>
    ELSE IF editor = s_code THEN <<f_w, f_n>>
    ELSE <<>>

(***************************************************************************)
(* shlex.split(s) as edit() calls it: POSIX mode, whitespace_split, no     *)
(* comment characters.  The lexer's state is " " (between tokens), "a" (in *)
(* a word), a quote character (inside quotes) or the escape character.     *)
(***************************************************************************)
shlex_whitespace    == {" ", "\t", "\r", "\n"}
shlex_quotes        == {"'", "\""}
shlex_escape        == {"\\"}
shlex_escapedquotes == {"\""}

ShlexOk(tokens) == [err |-> "", tokens |-> tokens]
ShlexErr        == [err |-> "ValueError", tokens |-> <<>>]

RECURSIVE shlex_read(_, _, _, _, _, _, _)
shlex_read(s, i, state, escapedstate, token, quoted, out) ==
    IF i > Len(s) THEN
        \* end of input
        IF state = " " THEN ShlexOk(out)
        ELSE IF state = "a" THEN
            IF token # <<>> \/ quoted THEN ShlexOk(Append(out, token)) ELSE ShlexOk(out)
        ELSE ShlexErr   \* "No closing quotation" / "No escaped character"
    ELSE LET c == s[i] IN
        IF state = " " THEN
            IF c \in shlex_whitespace THEN
                shlex_read(s, i + 1, " ", escapedstate, token, quoted, out)
            ELSE IF c \in shlex_escape THEN
                shlex_read(s, i + 1, c, "a", token, quoted, out)
            ELSE IF c \in shlex_quotes THEN
                shlex_read(s, i + 1, c, escapedstate, token, quoted, out)
            ELSE
                shlex_read(s, i + 1, "a", escapedstate, <<c>>, quoted, out)
        ELSE IF state \in shlex_quotes THEN
            IF c = state THEN
                shlex_read(s, i + 1, "a", escapedstate, token, TRUE, out)
            ELSE IF c \in shlex_escape /\ state \in shlex_escapedquotes THEN
                shlex_read(s, i + 1, c, state, token, TRUE, out)
            ELSE
                shlex_read(s, i + 1, state, escapedstate, Append(token, c), TRUE, out)
        ELSE IF state \in shlex_escape THEN
            LET kept == IF escapedstate \in shlex_quotes /\ c # state /\ c # escapedstate
                        THEN Append(token, state) ELSE token
            IN shlex_read(s, i + 1, escapedstate, escapedstate, Append(kept, c), quoted, out)
        ELSE \* state = "a"
            IF c \in shlex_whitespace THEN
                IF token # <<>> \/ quoted
                THEN shlex_read(s, i + 1, " ", escapedstate, <<>>, FALSE, Append(out, token))
                ELSE shlex_read(s, i + 1, " ", escapedstate, token, quoted, out)
            ELSE IF c \in shlex_quotes THEN
                shlex_read(s, i + 1, c, escapedstate, token, quoted, out)
            ELSE IF c \in shlex_escape THEN
                shlex_read(s, i + 1, c, "a", token, quoted, out)
            ELSE
                shlex_read(s, i + 1, "a", escapedstate, Append(token, c), quoted, out)

shlex_split(s) == shlex_read(s, 1, " ", " ", <<>>, FALSE, <<>>)

(***************************************************************************)
(* os.path.basename and os.path.realpath (POSIX).  links is a set of       *)
(* <<link path, target path>> pairs, acyclic, each link the final          *)
(* component of an absolute path; the inputs hold no ".", ".." or "//".    *)
(***************************************************************************)
cwd == <<"/","w">>

RECURSIVE rfind_slash(_, _)
rfind_slash(p, i) ==
    IF i = 0 THEN 0 ELSE IF p[i] = "/" THEN i ELSE rfind_slash(p, i - 1)

basename(p) == SubSeq(p, rfind_slash(p, Len(p)) + 1, Len(p))

abspath(p) ==
    IF p = <<>> THEN cwd
    ELSE IF p[1] = "/" THEN p
    ELSE cwd \o <<"/">> \o p

RECURSIVE follow_links(_, _)
follow_links(p, links) ==
    IF \E l \in links : l[1] = p
    THEN follow_links((CHOOSE l \in links : l[1] = p)[2], links)
    ELSE p

realpath(p, links) == follow_links(abspath(p), links)

(***************************************************************************)
(* str.encode(): UTF-8.  A lone surrogate cannot be encoded.               *)
(***************************************************************************)
utf8_char(cp) ==
    IF cp < 128 THEN <<cp>>
    ELSE IF cp < 2048 THEN <<192 + (cp \div 64), 128 + (cp % 64)>>
    ELSE IF cp < 65536 THEN
        <<224 + (cp \div 4096), 128 + ((cp \div 64) % 64), 128 + (cp % 64)>>
    ELSE <<240 + (cp \div 262144), 128 + ((cp \div 4096) % 64),
           128 + ((cp \div 64) % 64), 128 + (cp % 64)>>

is_surrogate(cp) == cp >= 55296 /\ cp <= 57343

RECURSIVE utf8_encode(_)
utf8_encode(text) ==
    IF text = <<>> THEN <<>> ELSE utf8_char(Head(text)) \o utf8_encode(Tail(text))

encodable(text) == \A i \in 1..Len(text) : ~is_surrogate(text[i])

(***************************************************************************)
(* Inputs: the environment, the executable locator, the files and the      *)
(* arguments of the calls.                                                 *)
(***************************************************************************)
e_emacsclient_c == <<"e","m","a","c","s","c","l","i","e","n","t"," ","-","c">>
e_quoted        == <<"'","m","y"," ","e","d","'"," ","-","x">>
e_blank         == <<" ">>
e_unclosed      == <<"n","a","n","o","'">>

VisualValues == {None, <<>>, e_emacsclient_c, e_quoted}
EditorValues == {None, <<>>, s_vim, e_blank, e_unclosed}

usr_bin(name) == <<"/","u","s","r","/","b","i","n","/">> \o name

DefaultNames == {get_default_editors[i] : i \in 1..Len(get_default_editors)}

\* What the executable locator answers for each default name.
Installed(found) == [n \in DefaultNames |-> IF n \in found THEN usr_bin(n) ELSE None]
WhichTables ==
    {Installed({}), Installed({s_nano}), Installed({s_editor}),
     Installed({s_vim, s_nano}), Installed({s_editor, s_vim, s_emacs, s_nano})}

p_alt_editor == <<"/","e","t","c","/","a","l","t","e","r","n","a","t","i","v","e","s","/","e","d","i","t","o","r">>
LinkTables ==
    {{},
     {<<usr_bin(s_editor), p_alt_editor>>, <<p_alt_editor, usr_bin(s_vim_basic)>>,
      <<cwd \o <<"/">> \o s_vim, cwd \o <<"/">> \o s_gedit>>}}

p_target == <<"/","t","m","p","/","t","e","s","t",".","t","x","t">>
sfx_md   == <<".","m","d">>
\* The name tempfile.NamedTemporaryFile(suffix=suffix) gives its new file.
tmp_name(suffix) == <<"/","t","m","p","/","t","m","p","x">> \o suffix
Paths == {p_target, tmp_name(<<>>), tmp_name(sfx_md)}

Absent     == [exists |-> FALSE, data |-> <<>>]
File(data) == [exists |-> TRUE, data |-> data]
b_old      == <<111, 108, 100>>

NoContents  == [kind |-> "None", val |-> <<>>]
Bytes(b)    == [kind |-> "bytes", val |-> b]
Text(t)     == [kind |-> "str", val |-> t]
t_hello     == <<104, 101, 108, 108, 111>>
ContentsValues ==
    {NoContents, Bytes(<<104, 105>>), Text(t_hello), Text(<<233>>), Text(<<>>),
     Text(<<56320>>)}

ArgNames ==
    {s_vim, s_gvim, s_vim_basic, s_vim_tiny, s_emacs, s_emacsclient, s_gedit,
     s_nano, s_code, s_editor, <<>>, <<"v","i">>, <<"V","I","M">>, usr_bin(s_vim)}

\* The longest byte string the editor process writes to the target file.
MaxEditLen == 1
RECURSIVE Repeat(_, _)
Repeat(b, n) == IF n = 0 THEN <<>> ELSE <<b>> \o Repeat(b, n - 1)
\* What the editor process may save: "", "x", "xx", ...
EditedContents == {Repeat(120, n) : n \in 0..MaxEditLen}

(***************************************************************************)
(* get_editor                                                              *)
(***************************************************************************)
Truthy(s) == s # None /\ s # <<>>

Return(v) == [err |-> "", val |-> v]
Raise(e)  == [err |-> e, val |-> <<>>]

\* A plausible slip in the loop: the last resolvable default wins.
RECURSIVE find_default_last(_, _, _)
find_default_last(names, i, find_executable) ==
    IF i > Len(names) THEN None
    ELSE LET later == find_default_last(names, i + 1, find_executable) IN
         IF later # None THEN later ELSE find_executable[names[i]]

\* editor.py:77-80: the first default the locator resolves, None when none does.
RECURSIVE find_default(_, _, _)
find_default(names, i, find_executable) ==
    IF i > Len(names) THEN None
    ELSE LET path == find_executable[names[i]] IN
         IF path # None THEN path ELSE find_default(names, i + 1, find_executable)

\* A plausible slip in the priority: EDITOR preferred to VISUAL.
get_editor_prefers_EDITOR(visual, editor_env, find_executable) ==
    LET editor == IF Truthy(editor_env) THEN editor_env ELSE visual IN
    IF Truthy(editor) THEN Return(editor)
    ELSE LET path == find_default(get_default_editors, 1, find_executable) IN
         IF path # None THEN Return(path) ELSE Raise("EditorError")

\* editor.py:56-83
get_editor(visual, editor_env, find_executable) ==
    LET editor == IF Truthy(visual) THEN visual ELSE editor_env IN
    IF Truthy(editor) THEN Return(editor)
    ELSE LET path == find_default(get_default_editors, 1, find_executable) IN
         IF path # None THEN Return(path) ELSE Raise("EditorError")

\* editor.py:86-89
get_tty_filename(sys_platform) ==
    IF sys_platform = "win32" THEN <<"C","O","N",":">>
    ELSE <<"/","d","e","v","/","t","t","y">>

(***************************************************************************)
(* State.  The environment (VISUAL, EDITOR, the locator, the files) is set *)
(* before the call; what the program reads only once (the symbolic links,  *)
(* isatty(), sys.platform) is drawn when it is read and kept.  pc is the   *)
(* line of edit() to run next, "returned" or "raised".                     *)
(***************************************************************************)
VARIABLES
    VISUAL, EDITOR,      \* os.environ: a string, or None when unset
    which,               \* find_executable: default name -> path or None
    fs, fs0,             \* the files now, and as they were before the call
    links,               \* the symbolic links realpath() met
    isatty,              \* what sys.stdin.isatty() / sys.stdout.isatty() answered
    platform,            \* sys.platform as get_tty_filename() read it
    pc, call,            \* the control point and the call's arguments
    editor, additional_args, args, use_tty, filename, contents, stdout,
                         \* the locals of edit()
    tmp,                 \* the NamedTemporaryFile's name, None when there is none
    proc,                \* the child process
    open_handles,        \* the file objects of edit() that are open
    n_open, n_spawn,     \* calls of open() and of subprocess.Popen() that succeeded
    result, error        \* what the call returned or raised

env    == <<VISUAL, EDITOR, which, links, isatty, platform>>
locals == <<editor, additional_args, args, use_tty, filename, contents, stdout, tmp>>
vars   == <<env, fs, fs0, pc, call, locals, proc, open_handles, n_open, n_spawn,
            result, error>>

NoCall == [fn |-> "", name |-> <<>>, filename |-> None, contents |-> NoContents,
           use_tty |-> "None", suffix |-> <<>>]
NoProc == [status |-> "none", argv |-> <<>>, stdout |-> None, close_fds |-> FALSE,
           saved |-> "", returncode |-> 0]
Unread == [read |-> FALSE, stdin |-> FALSE, stdout |-> FALSE]
NoError == [type |-> "", line |-> 0]

\* An exception of class type leaves the call from the given line.  The frame,
\* and with it every local, stays referenced by the traceback.
Raised(type, line) ==
    /\ pc' = "raised"
    /\ error' = [type |-> type, line |-> line]
    /\ UNCHANGED <<result, open_handles>>

Init ==
    /\ VISUAL \in VisualValues
    /\ EDITOR \in EditorValues
    /\ which \in WhichTables
    /\ \E prior \in {Absent, File(b_old)} :
          fs = [p \in Paths |-> IF p = p_target THEN prior ELSE Absent]
    /\ fs0 = fs
    /\ links = {}
    /\ isatty = Unread
    /\ platform = "unread"
    /\ pc = "idle"
    /\ call = NoCall
    /\ editor = <<>> /\ additional_args = <<>> /\ args = <<>>
    /\ use_tty = "None" /\ filename = None /\ contents = NoContents
    /\ stdout = None /\ tmp = None
    /\ proc = NoProc
    /\ open_handles = {}
    /\ n_open = 0 /\ n_spawn = 0
    /\ result = <<>> /\ error = NoError

(***************************************************************************)
(* The two small entry points.                                             *)
(***************************************************************************)
\* get_editor_args(name), editor.py:36-53
CallGetEditorArgs ==
    /\ pc = "idle"
    /\ \E name \in ArgNames :
          /\ call' = [NoCall EXCEPT !.fn = "get_editor_args", !.name = name]
          /\ result' = get_editor_args(name)
    /\ pc' = "returned"
    /\ UNCHANGED <<env, fs, fs0, locals, proc, open_handles, n_open, n_spawn, error>>

\* get_editor(), editor.py:56-83
CallGetEditor ==
    /\ pc = "idle"
    /\ call' = [NoCall EXCEPT !.fn = "get_editor"]
    /\ LET r == get_editor(VISUAL, EDITOR, which) IN
          IF r.err = ""
          THEN pc' = "returned" /\ result' = r.val /\ UNCHANGED <<error, open_handles>>
          ELSE Raised(r.err, 82)
    /\ UNCHANGED <<env, fs, fs0, locals, proc, n_open, n_spawn>>

(***************************************************************************)
(* edit(filename=None, contents=None, use_tty=None, suffix='')             *)
(***************************************************************************)
PyBool(b) == IF b THEN "True" ELSE "False"

CallEdit ==
    /\ pc = "idle"
    /\ \E f \in {<<p_target, <<>>>>, <<None, <<>>>>, <<None, sfx_md>>},
          c \in ContentsValues, t \in {"None", "True", "False"} :
          /\ call' = [NoCall EXCEPT !.fn = "edit", !.filename = f[1], !.suffix = f[2],
                                    !.contents = c, !.use_tty = t]
          /\ filename' = f[1] /\ contents' = c /\ use_tty' = t
    /\ pc' = "L94"
    /\ UNCHANGED <<env, fs, fs0, editor, additional_args, args, stdout, tmp, proc,
                   open_handles, n_open, n_spawn, result, error>>

\* A plausible slip in the order: the temporary file is allocated before the
\* editor is resolved.
EditL94_resolves_late ==
    /\ pc = "L94"
    /\ LET r  == get_editor(VISUAL, EDITOR, which)
           sp == shlex_split(r.val)
       IN  IF r.err # ""
           THEN /\ pc' = "raised"
                /\ error' = [type |-> r.err, line |-> 82]
                /\ tmp' = IF filename = None THEN tmp_name(call.suffix) ELSE tmp
                /\ fs' = IF filename = None THEN [fs EXCEPT ![tmp'] = File(<<>>)] ELSE fs
                /\ open_handles' = IF filename = None THEN open_handles \cup {"tmp"}
                                                      ELSE open_handles
                /\ UNCHANGED <<editor, result>>
           ELSE IF sp.err # "" THEN Raised(sp.err, 94) /\ UNCHANGED <<editor, tmp, fs>>
           ELSE /\ editor' = sp.tokens
                /\ pc' = "L97"
                /\ UNCHANGED <<result, error, open_handles, tmp, fs>>
    /\ UNCHANGED <<env, fs0, call, additional_args, args, use_tty, filename,
                   contents, stdout, proc, n_open, n_spawn>>

\* line 94: editor = shlex.split(get_editor())
EditL94 ==
    /\ pc = "L94"
    /\ LET r  == get_editor(VISUAL, EDITOR, which)
           sp == shlex_split(r.val)
       IN  IF r.err # "" THEN Raised(r.err, 82) /\ UNCHANGED editor
           ELSE IF sp.err # "" THEN Raised(sp.err, 94) /\ UNCHANGED editor
           ELSE /\ editor' = sp.tokens
                /\ pc' = "L97"
                /\ UNCHANGED <<result, error, open_handles>>
    /\ UNCHANGED <<env, fs, fs0, call, additional_args, args, use_tty, filename,
                   contents, stdout, tmp, proc, n_open, n_spawn>>

\* A plausible slip: the extra arguments looked up without resolving links.
EditL97_no_realpath ==
    /\ pc = "L97"
    /\ IF editor = <<>>
       THEN /\ Raised("IndexError", 97)
            /\ UNCHANGED <<links, additional_args, args>>
       ELSE \E l \in LinkTables :
            /\ links' = l
            /\ additional_args' = get_editor_args(basename(editor[1]))
            /\ args' = editor \o additional_args'
            /\ pc' = "L100"
            /\ UNCHANGED <<result, error, open_handles>>
    /\ UNCHANGED <<VISUAL, EDITOR, which, isatty, platform, fs, fs0, call, editor,
                   use_tty, filename, contents, stdout, tmp, proc, n_open, n_spawn>>

\* lines 97-98: the extra arguments, from the real name of the command
EditL97 ==
    /\ pc = "L97"
    /\ IF editor = <<>>
       THEN /\ Raised("IndexError", 97)
            /\ UNCHANGED <<links, additional_args, args>>
       ELSE \E l \in LinkTables :
            /\ links' = l
            /\ additional_args' = get_editor_args(basename(realpath(editor[1], l)))
            /\ args' = editor \o additional_args'
            /\ pc' = "L100"
            /\ UNCHANGED <<result, error, open_handles>>
    /\ UNCHANGED <<VISUAL, EDITOR, which, isatty, platform, fs, fs0, call, editor,
                   use_tty, filename, contents, stdout, tmp, proc, n_open, n_spawn>>

\* A plausible slip in the heuristic: the "not" on stdout left out.
EditL100_not_dropped ==
    /\ pc = "L100"
    /\ IF use_tty = "None"
       THEN \E si \in BOOLEAN, so \in BOOLEAN :
            /\ isatty' = [read |-> TRUE, stdin |-> si, stdout |-> so]
            /\ use_tty' = PyBool(si /\ so)
       ELSE UNCHANGED <<isatty, use_tty>>
    /\ pc' = "L103"
    /\ UNCHANGED <<VISUAL, EDITOR, which, links, platform, fs, fs0, call, editor,
                   additional_args, args, filename, contents, stdout, tmp, proc,
                   open_handles, n_open, n_spawn, result, error>>

\* lines 100-101: the default of use_tty
EditL100 ==
    /\ pc = "L100"
    /\ IF use_tty = "None"
       THEN \E si \in BOOLEAN, so \in BOOLEAN :
            /\ isatty' = [read |-> TRUE, stdin |-> si, stdout |-> so]
            /\ use_tty' = PyBool(si /\ ~so)
       ELSE UNCHANGED <<isatty, use_tty>>
    /\ pc' = "L103"
    /\ UNCHANGED <<VISUAL, EDITOR, which, links, platform, fs, fs0, call, editor,
                   additional_args, args, filename, contents, stdout, tmp, proc,
                   open_handles, n_open, n_spawn, result, error>>

\* lines 103-105: a temporary file when the caller named none
EditL103 ==
    /\ pc = "L103"
    /\ IF filename = None
       THEN /\ tmp' = tmp_name(call.suffix)
            /\ fs' = [fs EXCEPT ![tmp'] = File(<<>>)]
            /\ open_handles' = open_handles \cup {"tmp"}
            /\ filename' = tmp'
       ELSE UNCHANGED <<tmp, fs, open_handles, filename>>
    /\ pc' = "L107"
    /\ UNCHANGED <<env, fs0, call, editor, additional_args, args, use_tty, contents,
                   stdout, proc, n_open, n_spawn, result, error>>

\* A plausible slip in the open mode: 'ab' in place of 'wb', so the contents
\* are added after what the file held.
EditL107_appends ==
    /\ pc = "L107"
    /\ \/ /\ contents = NoContents
          /\ pc' = "L115"
          /\ UNCHANGED <<contents, fs, n_open, result, error, open_handles>>
       \/ /\ contents.kind = "str" /\ ~encodable(contents.val)
          /\ Raised("UnicodeEncodeError", 110)
          /\ UNCHANGED <<contents, fs, n_open>>
       \/ /\ contents # NoContents
          /\ contents.kind = "str" => encodable(contents.val)
          /\ contents' = Bytes(IF contents.kind = "str" THEN utf8_encode(contents.val)
                                                        ELSE contents.val)
          /\ \/ /\ fs' = [fs EXCEPT ![filename] = File(fs[filename].data \o contents'.val)]
                /\ n_open' = n_open + 1
                /\ pc' = "L115"
                /\ UNCHANGED <<result, error, open_handles>>
             \/ /\ tmp = None
                /\ Raised("OSError", 112)
                /\ UNCHANGED <<fs, n_open>>
    /\ UNCHANGED <<env, fs0, call, editor, additional_args, args, use_tty, filename,
                   stdout, tmp, proc, n_spawn>>

\* lines 107-113: the initial contents, encoded, written over the file.  The
\* with block closes the file object on every way out.
EditL107 ==
    /\ pc = "L107"
    /\ \/ /\ contents = NoContents
          /\ pc' = "L115"
          /\ UNCHANGED <<contents, fs, n_open, result, error, open_handles>>
       \/ /\ contents.kind = "str" /\ ~encodable(contents.val)
          /\ Raised("UnicodeEncodeError", 110)
          /\ UNCHANGED <<contents, fs, n_open>>
       \/ /\ contents # NoContents
          /\ contents.kind = "str" => encodable(contents.val)
          /\ contents' = Bytes(IF contents.kind = "str" THEN utf8_encode(contents.val)
                                                        ELSE contents.val)
          /\ \/ /\ fs' = [fs EXCEPT ![filename] = File(contents'.val)]
                /\ n_open' = n_open + 1
                /\ pc' = "L115"
                /\ UNCHANGED <<result, error, open_handles>>
             \/ /\ tmp = None     \* the caller's path cannot be opened for writing
                /\ Raised("OSError", 112)
                /\ UNCHANGED <<fs, n_open>>
    /\ UNCHANGED <<env, fs0, call, editor, additional_args, args, use_tty, filename,
                   stdout, tmp, proc, n_spawn>>

\* A plausible slip: the terminal device opened whatever use_tty says, and
\* handed to the child only when use_tty is true.
EditL115_always_opens_tty ==
    /\ pc = "L115"
    /\ args' = Append(args, filename)
    /\ \E pf \in {"linux", "win32"} : platform' = pf
    /\ \/ /\ stdout' = IF use_tty = "True" THEN get_tty_filename(platform') ELSE None
          /\ open_handles' = open_handles \cup {"tty"}
          /\ n_open' = n_open + 1
          /\ pc' = "L121"
          /\ UNCHANGED <<result, error>>
       \/ /\ Raised("OSError", 119)
          /\ UNCHANGED <<stdout, n_open>>
    /\ UNCHANGED <<VISUAL, EDITOR, which, links, isatty, fs, fs0, call, editor,
                   additional_args, use_tty, filename, contents, tmp, proc, n_spawn>>

\* lines 115-119: the file name ends the arguments; the terminal device is
\* opened for the child's standard output when use_tty is true
EditL115 ==
    /\ pc = "L115"
    /\ args' = Append(args, filename)
    /\ \/ /\ use_tty # "True"
          /\ stdout' = None
          /\ pc' = "L121"
          /\ UNCHANGED <<platform, n_open, result, error, open_handles>>
       \/ /\ use_tty = "True"
          /\ \E pf \in {"linux", "win32"} : platform' = pf
          /\ \/ /\ stdout' = get_tty_filename(platform')
                /\ open_handles' = open_handles \cup {"tty"}
                /\ n_open' = n_open + 1
                /\ pc' = "L121"
                /\ UNCHANGED <<result, error>>
             \/ /\ Raised("OSError", 119)
                /\ UNCHANGED <<stdout, n_open>>
    /\ UNCHANGED <<VISUAL, EDITOR, which, links, isatty, fs, fs0, call, editor,
                   additional_args, use_tty, filename, contents, tmp, proc, n_spawn>>

\* line 121: proc = subprocess.Popen(args, close_fds=True, stdout=stdout)
EditL121 ==
    /\ pc = "L121"
    /\ \/ /\ proc' = [status |-> "running", argv |-> args, stdout |-> stdout,
                      close_fds |-> TRUE, saved |-> "", returncode |-> 0]
          /\ n_spawn' = n_spawn + 1
          /\ pc' = "L122"
          /\ UNCHANGED <<result, error, open_handles>>
       \/ /\ Raised("OSError", 121)
          /\ UNCHANGED <<proc, n_spawn>>
    /\ UNCHANGED <<env, fs, fs0, call, locals, n_open>>

\* The editor process: it may leave the file named last in its arguments as
\* it is, save new contents or remove it, and exits with any code.
ChildRun ==
    /\ proc.status = "running"
    /\ LET target == proc.argv[Len(proc.argv)] IN
       \E code \in {0, 1} :
          \/ /\ proc' = [proc EXCEPT !.status = "exited", !.saved = "nothing",
                                     !.returncode = code]
             /\ fs' = fs
          \/ /\ proc' = [proc EXCEPT !.status = "exited", !.saved = "removed",
                                     !.returncode = code]
             /\ fs' = [fs EXCEPT ![target] = Absent]
          \/ \E d \in EditedContents :
             /\ proc' = [proc EXCEPT !.status = "exited", !.saved = "saved",
                                     !.returncode = code]
             /\ fs' = [fs EXCEPT ![target] = File(d)]
    /\ UNCHANGED <<env, fs0, pc, call, locals, open_handles, n_open, n_spawn,
                   result, error>>

\* line 122: proc.communicate() returns once the child has exited
EditL122 ==
    /\ pc = "L122"
    /\ proc.status = "exited"
    /\ pc' = "L124"
    /\ UNCHANGED <<env, fs, fs0, call, locals, proc, open_handles, n_open, n_spawn,
                   result, error>>

\* A plausible slip: the child's exit code checked before the file is read.
EditL124_checks_returncode ==
    /\ pc = "L124"
    /\ IF proc.returncode # 0
       THEN /\ Raised("CalledProcessError", 122)
            /\ UNCHANGED <<fs, n_open>>
       ELSE IF fs[filename].exists
       THEN /\ result' = fs[filename].data
            /\ n_open' = n_open + 1
            /\ pc' = "returned"
            /\ \E collected \in SUBSET (open_handles \cap {"tmp", "tty"}) :
                  /\ open_handles' = open_handles \ collected
                  /\ fs' = IF "tmp" \in collected THEN [fs EXCEPT ![tmp] = Absent]
                                                  ELSE fs
            /\ UNCHANGED error
       ELSE /\ Raised("OSError", 124)
            /\ UNCHANGED <<fs, n_open>>
    /\ UNCHANGED <<env, fs0, call, locals, proc, n_spawn>>

\* lines 124-125: the file is opened, read whole and closed, and edit()
\* returns.  Nothing closes tmp and stdout: once the locals are dropped each
\* is closed when the runtime collects it, at the return or later, and
\* closing tmp removes the temporary file.
EditL124 ==
    /\ pc = "L124"
    /\ IF fs[filename].exists
       THEN /\ result' = fs[filename].data
            /\ n_open' = n_open + 1
            /\ pc' = "returned"
            /\ \E collected \in SUBSET (open_handles \cap {"tmp", "tty"}) :
                  /\ open_handles' = open_handles \ collected
                  /\ fs' = IF "tmp" \in collected THEN [fs EXCEPT ![tmp] = Absent]
                                                  ELSE fs
            /\ UNCHANGED error
       ELSE /\ Raised("OSError", 124)
            /\ UNCHANGED <<fs, n_open>>
    /\ UNCHANGED <<env, fs0, call, locals, proc, n_spawn>>

Next ==
    \/ CallGetEditorArgs \/ CallGetEditor \/ CallEdit
    \/ EditL94 \/ EditL97 \/ EditL100 \/ EditL103 \/ EditL107 \/ EditL115
    \/ EditL121 \/ ChildRun \/ EditL122 \/ EditL124

Spec == Init /\ [][Next]_vars

(***************************************************************************)
(* Properties                                                              *)
(***************************************************************************)
Finished == pc \in {"returned", "raised"}
Spawned  == proc.status # "none"

\* What the caller asked of the terminal, from the arguments and the two
\* isatty() answers alone.
WantsTty ==
    \/ call.use_tty = "True"
    \/ call.use_tty = "None" /\ isatty.read /\ isatty.stdin /\ ~isatty.stdout

\* The file edit() hands to the editor.
Target == IF call.filename = None THEN tmp_name(call.suffix) ELSE call.filename

C1_Table ==
    {<< <<"v","i","m">>, << <<"-","f">>, <<"-","o">> >> >>,
     << <<"g","v","i","m">>, << <<"-","f">>, <<"-","o">> >> >>,
     << <<"v","i","m",".","b","a","s","i","c">>, << <<"-","f">>, <<"-","o">> >> >>,
     << <<"v","i","m",".","t","i","n","y">>, << <<"-","f">>, <<"-","o">> >> >>,
     << <<"e","m","a","c","s">>, << <<"-","n","w">> >> >>,
     << <<"e","m","a","c","s","c","l","i","e","n","t">>, << <<"-","n","w">> >> >>,
     << <<"g","e","d","i","t">>,
        << <<"-","w">>, <<"-","-","n","e","w","-","w","i","n","d","o","w">> >> >>,
     << <<"n","a","n","o">>, << <<"-","R">> >> >>,
     << <<"c","o","d","e">>, << <<"-","w">>, <<"-","n">> >> >>}

\* C1: get_editor_args(name) returns exactly the flags of the table for the
\* nine table names, in order, and the empty list for every other string; it
\* never fails.
C1_EditorArgsTable ==
    call.fn = "get_editor_args" =>
        /\ pc = "returned"
        /\ \A row \in C1_Table : call.name = row[1] => result = row[2]
        /\ (\A row \in C1_Table : call.name # row[1]) => result = <<>>

C1_Witness ==
    /\ call.fn = "get_editor_args" /\ pc = "returned"
    /\ call.name = <<"n","a","n","o">> /\ result = << <<"-","R">> >>

\* C2, as stated: VISUAL, when set and not empty, is returned verbatim whatever
\* EDITOR is; otherwise EDITOR, when set, is returned.
C2_AsStated ==
    (call.fn = "get_editor" /\ Finished) =>
        /\ (VISUAL # None /\ VISUAL # <<>>) => (pc = "returned" /\ result = VISUAL)
        /\ ((VISUAL = None \/ VISUAL = <<>>) /\ EDITOR # None) =>
               (pc = "returned" /\ result = EDITOR)

\* C2, amended: VISUAL, when set and not empty, is returned verbatim whatever
\* EDITOR is; otherwise EDITOR, when set and not empty, is returned.
C2_EnvironmentPriority ==
    (call.fn = "get_editor" /\ Finished) =>
        /\ (VISUAL # None /\ VISUAL # <<>>) => (pc = "returned" /\ result = VISUAL)
        /\ ((VISUAL = None \/ VISUAL = <<>>) /\ EDITOR # None /\ EDITOR # <<>>) =>
               (pc = "returned" /\ result = EDITOR)

C2_Witness ==
    /\ call.fn = "get_editor" /\ pc = "returned"
    /\ VISUAL = e_emacsclient_c /\ EDITOR = s_vim /\ result = e_emacsclient_c

C3_Resolvable == {i \in 1..Len(get_default_editors) : which[get_default_editors[i]] # None}

\* C3: with neither variable set, get_editor returns the locator's path for
\* the first default name (in list order) the locator resolves, and raises
\* EditorError exactly when it resolves none.
C3_Fallback ==
    (call.fn = "get_editor" /\ Finished /\ VISUAL = None /\ EDITOR = None) =>
        IF C3_Resolvable = {}
        THEN pc = "raised" /\ error.type = "EditorError"
        ELSE /\ pc = "returned"
             /\ \E i \in C3_Resolvable :
                   /\ \A j \in C3_Resolvable : i <= j
                   /\ result = which[get_default_editors[i]]

C3_Witness ==
    /\ call.fn = "get_editor" /\ pc = "returned" /\ VISUAL = None /\ EDITOR = None
    /\ which[s_editor] = None /\ which[s_vim] # None /\ which[s_nano] # None
    /\ result = usr_bin(s_vim)

\* C4: the argument vector edit spawns is the shell-style tokens of the
\* resolved editor string, then get_editor_args of the basename of the
\* link-resolved first token, then the target path, last.
C4_ArgumentVector ==
    Spawned =>
        LET tokens == shlex_split(get_editor(VISUAL, EDITOR, which).val).tokens IN
        /\ proc.argv = tokens \o get_editor_args(basename(realpath(tokens[1], links)))
                              \o <<Target>>
        /\ (VISUAL = e_emacsclient_c /\ call.filename = p_target) =>
               proc.argv = << <<"e","m","a","c","s","c","l","i","e","n","t">>,
                              <<"-","c">>, <<"-","n","w">>,
                              <<"/","t","m","p","/","t","e","s","t",".","t","x","t">> >>
        /\ (~Truthy(VISUAL) /\ ~Truthy(EDITOR) /\ which[s_editor] # None
              /\ links # {} /\ call.filename = p_target) =>
               proc.argv = << <<"/","u","s","r","/","b","i","n","/","e","d","i","t","o","r">>,
                              <<"-","f">>, <<"-","o">>,
                              <<"/","t","m","p","/","t","e","s","t",".","t","x","t">> >>

C4_Witness ==
    /\ Spawned
    /\ VISUAL = e_emacsclient_c /\ call.filename = p_target
    /\ proc.argv = <<s_emacsclient, <<"-","c">>, f_nw, p_target>>

\* C5: the child's standard output is the terminal device (/dev/tty, CON: on
\* win32) exactly when use_tty is true, or is not given while stdin is a
\* terminal and stdout is not; otherwise the child inherits standard output.
C5_TtyRedirect ==
    Spawned =>
        IF WantsTty
        THEN proc.stdout = IF platform = "win32" THEN <<"C","O","N",":">>
                           ELSE <<"/","d","e","v","/","t","t","y">>
        ELSE proc.stdout = None

C5_Witness ==
    /\ Spawned /\ call.use_tty = "None" /\ isatty.stdin /\ ~isatty.stdout
    /\ proc.stdout = <<"/","d","e","v","/","t","t","y">>

C6_Encoded ==
    IF call.contents = Text(t_hello) THEN <<104, 101, 108, 108, 111>>
    ELSE IF call.contents = Text(<<233>>) THEN <<195, 169>>
    ELSE IF call.contents = Text(<<>>) THEN <<>>
    ELSE call.contents.val

\* C6: when contents is given, the target file holds exactly the encoded
\* contents when the editor is spawned, whatever it held before, and an editor
\* that leaves the file alone makes edit return those bytes.
C6_RoundTrip ==
    (call.fn = "edit" /\ call.contents # NoContents) =>
        /\ proc.status = "running" => fs[Target] = File(C6_Encoded)
        /\ (pc = "returned" /\ proc.saved = "nothing") => result = C6_Encoded

C6_Witness ==
    /\ pc = "returned" /\ call.fn = "edit" /\ call.filename = p_target
    /\ fs0[p_target] = File(b_old)
    /\ call.contents = Text(t_hello) /\ proc.saved = "nothing"
    /\ result = <<104, 101, 108, 108, 111>>

\* C7, as stated: edit reads the target file only after the child has exited,
\* and once it has, edit returns the whole of what the file then holds,
\* whatever the exit code.
C7_AsStated ==
    [][/\ pc' = "L124" => proc'.status = "exited"
       /\ (pc = "L124" /\ pc' # "L124") =>
            /\ proc.status = "exited"
            /\ pc' = "returned" /\ result' = fs[Target].data]_vars

\* C7, amended: edit reads the target file only after the child has exited,
\* and once it has, edit returns the whole of what the file then holds when
\* the file exists and raises OSError from the final open when it does not,
\* in both cases whatever the exit code.
C7_ReadAfterExit ==
    [][/\ pc' = "L124" => proc'.status = "exited"
       /\ (pc = "L124" /\ pc' # "L124") =>
            /\ proc.status = "exited"
            /\ IF fs[Target].exists
               THEN pc' = "returned" /\ result' = fs[Target].data
               ELSE pc' = "raised" /\ error' = [type |-> "OSError", line |-> 124]]_vars

C7_Witness ==
    /\ pc = "returned" /\ call.fn = "edit" /\ proc.status = "exited"
    /\ proc.returncode = 1 /\ proc.saved = "saved" /\ result = <<120>>

\* C8, as stated: a completed edit spawned one child and opened files exactly
\* twice.
C8_AsStated ==
    (call.fn = "edit" /\ pc = "returned") => (n_spawn = 1 /\ n_open = 2)

\* C8, amended: a completed edit spawned one child and called open() once for
\* the final read, once more when contents is given and once more when the
\* terminal device is used: one to three times.
C8_SpawnsAndOpens ==
    (call.fn = "edit" /\ pc = "returned") =>
        /\ n_spawn = 1
        /\ n_open = 1 + (IF call.contents # NoContents THEN 1 ELSE 0)
                      + (IF WantsTty THEN 1 ELSE 0)

C8_Witness ==
    /\ call.fn = "edit" /\ pc = "returned"
    /\ call.contents # NoContents /\ WantsTty /\ n_spawn = 1 /\ n_open = 3

\* C9: on every way out of edit no file object it opened is still open, and
\* when the spawn fails the file is not read.
C9_NoHandleLeftOpen ==
    (call.fn = "edit" /\ Finished) =>
        /\ open_handles = {}
        /\ (pc = "raised" /\ error.line = 121) => (result = <<>> /\ n_spawn = 0)

\* C10: when no editor can be resolved, edit raises EditorError before any
\* other effect: no temporary file, no file created or written, the terminal
\* device not opened, no child spawned.
C10_ResolutionFailsFirst ==
    call.fn = "edit" =>
        /\ (Finished /\ VISUAL = None /\ EDITOR = None
              /\ \A n \in DefaultNames : which[n] = None) =>
               (pc = "raised" /\ error.type = "EditorError")
        /\ (pc = "raised" /\ error.type = "EditorError") =>
               /\ fs = fs0
               /\ tmp = None
               /\ open_handles = {}
               /\ n_open = 0 /\ n_spawn = 0
               /\ proc = NoProc
               /\ platform = "unread"

C10_Witness ==
    /\ call.fn = "edit" /\ pc = "raised" /\ error.type = "EditorError"
    /\ VISUAL = None /\ EDITOR = None
    /\ call.filename = None /\ call.contents # NoContents /\ call.use_tty = "True"

====
